---- MODULE Spec2Model ----
(***************************************************************************)
(* wasteland: a storage abstraction over a size-bounded key-value          *)
(* transport.  The module models the two backends of the repository:       *)
(*   - MemoryBackend  (src/unnamed/part_000), the reference in-memory      *)
(*     backend with the mutable-entry sequence rule;                        *)
(*   - GrenacheBackend (src/backends/Grenache.js, lines 1-295, the version *)
(*     with storeUntilPointersFit), the chunking / indirection engine.     *)
(*                                                                         *)
(* Strings are sequences of tokens.  A token is a data character (a        *)
(* positive integer below AddrBase), one of the two halves of the pointer  *)
(* envelope that wrapPointers writes around the address list, the text     *)
(* "undefined", or an address (an integer above AddrBase, AddressSize      *)
(* token wide).  Lengths are counted in tokens.                            *)
(***************************************************************************)
EXTENDS Integers, Sequences, FiniteSets, TLC

VARIABLES
    backend,    \* which backend was constructed: "memory" or "grenache"
    keysSet,    \* conf.keys is set
    store,      \* MemoryBackend.store: key -> record
    shaCount,   \* number of getSha calls made so far (each draws Math.random())
    memOps,     \* number of MemoryBackend calls made
    last,       \* the last MemoryBackend call and what its callback received
    accepted,   \* key -> the arguments of the last put whose callback got that key
    ret,        \* the object the last MemoryBackend get handed to its callback
    retAliased, \* ret is the very object held in store (not a copy)
    dht,        \* the transport's table: address -> record
    hashes,     \* the contents the transport's content hash has been applied to
    failures,   \* number of transport operations that failed
    opts,       \* the options object handed to the running / last GrenacheBackend put
    call,       \* the running / last top-level GrenacheBackend call
    pc,         \* where that call stands
    frags,      \* the slices of the level storeChunked is storing
    batch,      \* the running async.parallelLimit
    boxes,      \* storeUntilPointersFit: the boxes async.series has not started yet
    acc,        \* storeUntilPointersFit: the results of the boxes that completed
    payload,    \* handleChunked: the record being reassembled
    inflight,   \* transport operations started and not yet completed
    cb,         \* the top-level callback: times called, error, address, record
    log         \* the GrenacheBackend puts whose callback was called

vars == <<backend, keysSet, store, shaCount, memOps, last, accepted, ret,
          retAliased, dht, hashes, failures, opts, call, pc, frags, batch,
          boxes, acc, payload, inflight, cb, log>>

memVars == <<store, memOps, last, accepted, ret, retAliased>>
gVars == <<dht, hashes, failures, opts, call, pc, frags, batch, boxes, acc,
           payload, inflight, cb, log>>

----------------------------------------------------------------------------
(* Bounds of the model.                                                    *)

BufferSizelimit == 5        \* conf.bufferSizelimit of the modelled instance
AddressSize == 1            \* conf.addressSize: an address is one token
ConcurrentRequests == 2     \* conf.concurrentRequests of the modelled instance
MaxSeq == 2                 \* callers pass seq in 0..MaxSeq, or none
NumSalts == 1               \* callers pass a salt in 1..NumSalts, or none
MaxMemOps == 3              \* MemoryBackend calls in one run
MaxPuts == 2                \* GrenacheBackend puts in one run
MaxGets == 1                \* GrenacheBackend gets in one run
MaxMultiLen == 6            \* payload length of the puts of a run with several
MaxFailures == 1            \* transport operations that may fail in one run
MaxRounds == 3              \* rounds of child fetches followed in one get

(* Program constants.                                                      *)
MaxIndirections == 2        \* conf.maxIndirections

(* JavaScript values.                                                      *)
Undefined == -1             \* opts.seq absent
NaN == -2                   \* undefined + 1
NoSalt == 0                 \* opts.salt absent (falsy)
NoKey == 0                  \* a falsy key / no address
NoErr == "null"
NoRecord == <<>>

(* Tokens.                                                                 *)
TagOpen == -1               \* {"wasteland_type":"pointers","p":[
TagClose == -2              \* ]}
UndefinedText == -3         \* the text "undefined"
AddrBase == 1000            \* address tokens lie above, data characters below

ErrNoData == "no data provided"
ErrNoKey == "no key provided"
ErrConflictSeq == "ERR_CONFLICT_SEQ"
ErrNoKeys == "no keys set"
ErrTooLarge == "data too large: adjust maxIndirections"
ErrSequence == "302 sequence number less than current"
ErrTransport == "transport error"

PublicKeyHex == "publicKey"

Min(a, b) == IF a < b THEN a ELSE b

SetField(r, name, val) == (name :> val) @@ r

(* getSha: sha1 of data + Math.random(); the n-th call returns a digest no *)
(* other call returns, and no caller-chosen salt.                          *)
getSha(n) == NumSalts + n

----------------------------------------------------------------------------
(* MemoryBackend                                                           *)

MemSeqs == {Undefined} \cup (0 .. MaxSeq)
MemSalts == {NoSalt} \cup (1 .. NumSalts)
MemData == {<<>>, <<1>>, <<2>>}
MemOpts == [seq : MemSeqs, salt : MemSalts]

(* Buffer.concat([k, salt]).toString('hex'): one key per (k, salt).        *)
MemoryKey(k, salt) == <<k, salt>>

(* getPayload: the record put stores.  sig stands for the signature: the   *)
(* tuple that was encoded and signed.                                      *)
MemoryGetPayload(data, o, n) ==
    LET salt == IF o.salt # NoSalt THEN o.salt ELSE getSha(n)
    IN  [v |-> data, seq |-> o.seq, salt |-> salt, k |-> PublicKeyHex,
         sig |-> [seq |-> o.seq, v |-> data, salt |-> o.salt]]

(* this.store[key].seq + 1 *)
NextSeq(s) == IF s = Undefined THEN NaN ELSE s + 1

(* a !== b on numbers, undefined and NaN *)
StrictNotEqual(a, b) == a = NaN \/ b = NaN \/ a # b

(* put: [store, err, key] *)
MemoryPutMutStoreFirst(st, data, o, n) ==
    LET p == MemoryGetPayload(data, o, n)
        key == MemoryKey(p.k, p.salt)
    IN  IF data = <<>> THEN [store |-> st, err |-> ErrNoData, key |-> NoKey]
        ELSE IF key \notin DOMAIN st
        THEN [store |-> (key :> p) @@ st, err |-> NoErr, key |-> key]
        ELSE IF StrictNotEqual(NextSeq(st[key].seq), p.seq)
        THEN [store |-> (key :> p) @@ st, err |-> ErrConflictSeq, key |-> NoKey]
        ELSE [store |-> (key :> p) @@ st, err |-> NoErr, key |-> key]

MemoryPutMutAtLeast(st, data, o, n) ==
    LET p == MemoryGetPayload(data, o, n)
        key == MemoryKey(p.k, p.salt)
    IN  IF data = <<>> THEN [store |-> st, err |-> ErrNoData, key |-> NoKey]
        ELSE IF key \notin DOMAIN st
        THEN [store |-> (key :> p) @@ st, err |-> NoErr, key |-> key]
        ELSE IF st[key].seq = Undefined \/ p.seq = Undefined
                \/ p.seq < st[key].seq + 1
        THEN [store |-> st, err |-> ErrConflictSeq, key |-> NoKey]
        ELSE [store |-> (key :> p) @@ st, err |-> NoErr, key |-> key]

MemoryPut(st, data, o, n) ==
    LET p == MemoryGetPayload(data, o, n)
        key == MemoryKey(p.k, p.salt)
    IN  IF data = <<>> THEN [store |-> st, err |-> ErrNoData, key |-> NoKey]
        ELSE IF key \notin DOMAIN st
        THEN [store |-> (key :> p) @@ st, err |-> NoErr, key |-> key]
        ELSE IF StrictNotEqual(NextSeq(st[key].seq), p.seq)
        THEN [store |-> st, err |-> ErrConflictSeq, key |-> NoKey]
        ELSE [store |-> (key :> p) @@ st, err |-> NoErr, key |-> key]

(* get: [err, res, aliased] *)
MemoryGetMutNoCopy(st, key) ==
    IF key = <<>> THEN [err |-> ErrNoKey, res |-> NoRecord, aliased |-> FALSE]
    ELSE IF key \in DOMAIN st
    THEN [err |-> NoErr, res |-> SetField(st[key], "id", "memory"),
          aliased |-> TRUE]
    ELSE [err |-> NoErr, res |-> [id |-> "memory"], aliased |-> FALSE]

MemoryGet(st, key) ==
    IF key = <<>> THEN [err |-> ErrNoKey, res |-> NoRecord, aliased |-> FALSE]
    ELSE IF key \in DOMAIN st
    THEN [err |-> NoErr, res |-> SetField(st[key], "id", "memory"),
          aliased |-> FALSE]
    ELSE [err |-> NoErr, res |-> [id |-> "memory"], aliased |-> FALSE]

MemKeys == {<<>>} \cup {MemoryKey(PublicKeyHex, s) :
                          s \in (1 .. NumSalts + MaxMemOps)}

MemPut(data, o) ==
    /\ backend = "memory"
    /\ memOps < MaxMemOps
    /\ LET r == MemoryPut(store, data, o, shaCount + 1)
       IN  /\ store' = r.store
           /\ last' = [op |-> "put", data |-> data, opts |-> o,
                       err |-> r.err, key |-> r.key]
           /\ accepted' = IF r.err = NoErr
                          THEN (r.key :> [data |-> data, opts |-> o]) @@ accepted
                          ELSE accepted
    /\ shaCount' = IF o.salt = NoSalt /\ data # <<>> THEN shaCount + 1 ELSE shaCount
    /\ memOps' = memOps + 1
    /\ ret' = NoRecord
    /\ retAliased' = FALSE
    /\ UNCHANGED <<backend, keysSet>>
    /\ UNCHANGED gVars

MemGet(key) ==
    /\ backend = "memory"
    /\ memOps < MaxMemOps
    /\ LET r == MemoryGet(store, key)
       IN  /\ last' = [op |-> "get", data |-> <<>>,
                       opts |-> [seq |-> Undefined, salt |-> NoSalt],
                       err |-> r.err, key |-> key]
           /\ ret' = r.res
           /\ retAliased' = r.aliased
    /\ memOps' = memOps + 1
    /\ UNCHANGED <<store, accepted, shaCount, backend, keysSet>>
    /\ UNCHANGED gVars

(* The caller of get writes into the object it was handed.                 *)
MemClobber ==
    /\ backend = "memory"
    /\ last.op = "get"
    /\ "v" \in DOMAIN ret
    /\ ret.v # <<9>>
    /\ ret' = [ret EXCEPT !.v = <<9>>]
    /\ store' = IF retAliased
                THEN [store EXCEPT ![last.key] = [@ EXCEPT !.v = <<9>>]]
                ELSE store
    /\ UNCHANGED <<memOps, last, accepted, retAliased, shaCount, backend, keysSet>>
    /\ UNCHANGED gVars

MemNext ==
    \/ \E data \in MemData, o \in MemOpts : MemPut(data, o)
    \/ \E key \in MemKeys : MemGet(key)
    \/ MemClobber

----------------------------------------------------------------------------
(* lib/data-helper.js                                                      *)

(* prepareData: consecutive fragments of at most bufferSizelimit tokens;   *)
(* the empty payload is one empty fragment.                                *)
prepareData(data) ==
    LET n == Len(data)
        cnt == IF n = 0 THEN 1
               ELSE (n + BufferSizelimit - 1) \div BufferSizelimit
    IN  [i \in 1 .. cnt |->
            SubSeq(data, (i - 1) * BufferSizelimit + 1,
                   Min(i * BufferSizelimit, n))]

(* wrapPointers: JSON.stringify({wasteland_type: 'pointers', p: pointers}) *)
wrapPointers(pointers) == <<TagOpen>> \o pointers \o <<TagClose>>

(* Tokens that separate two addresses of a pointer list.                   *)
SeparatorOverhead == 0

getMaxPointersPerBuffer(limit, addressSize) ==
    (limit - Len(wrapPointers(<<>>))) \div (addressSize + SeparatorOverhead)

RECURSIVE Pow(_, _)
Pow(b, e) == IF e = 0 THEN 1 ELSE b * Pow(b, e - 1)

getSliceLimit(limit, maxPointers, maxIndirections) ==
    Pow(maxPointers, maxIndirections)

(* prepareMultiLevelData: consecutive boxes of maxPointers slices          *)
prepareMultiLevelData(slices, maxPointers) ==
    LET n == Len(slices)
    IN  [b \in 1 .. ((n + maxPointers - 1) \div maxPointers) |->
            SubSeq(slices, (b - 1) * maxPointers + 1, Min(b * maxPointers, n))]

----------------------------------------------------------------------------
(* GrenacheBackend                                                         *)

maxPointersPerBuffer == getMaxPointersPerBuffer(BufferSizelimit, AddressSize)
maxSliceCount ==
    getSliceLimit(BufferSizelimit, maxPointersPerBuffer, MaxIndirections)

(* The largest payload a tree of depth maxIndirections addresses.          *)
Capacity == Pow(maxPointersPerBuffer, MaxIndirections) * BufferSizelimit
MaxLen == Capacity + 1

IsAddress(t) == t >= AddrBase

(* JSON.parse(v) succeeds and isResultChunked(content)                     *)
IsPointerText(v) ==
    /\ Len(v) >= 2
    /\ v[1] = TagOpen
    /\ v[Len(v)] = TagClose
    /\ \A i \in 2 .. (Len(v) - 1) : IsAddress(v[i])

(* content.p *)
PointersOf(v) == SubSeq(v, 2, Len(v) - 1)

(* The transport: a DHT-like service.  Its content hash and its digest of  *)
(* (publicKey, salt) are injective.                                        *)
HashIndex(hs, v) ==
    IF \E i \in 1 .. Len(hs) : hs[i] = v
    THEN CHOOSE i \in 1 .. Len(hs) : hs[i] = v
    ELSE Len(hs) + 1

Intern(hs, v) ==
    IF \E i \in 1 .. Len(hs) : hs[i] = v THEN hs ELSE Append(hs, v)

ImmutableAddress(hs, v) == AddrBase + 2 * HashIndex(hs, v) + 1

MutableAddress(k, salt) == AddrBase + 2 * salt

UnknownAddress == MutableAddress(PublicKeyHex, NoSalt)

NoBatch == [id |-> 0, kind |-> "none", tasks |-> <<>>, next |-> 1,
            done |-> {}, res |-> <<>>, live |-> FALSE]

World ==
    [dht |-> dht, hashes |-> hashes, shaCount |-> shaCount, opts |-> opts,
     call |-> call, pc |-> pc, frags |-> frags, batch |-> batch,
     boxes |-> boxes, acc |-> acc, payload |-> payload,
     inflight |-> inflight, cb |-> cb, log |-> log]

Commit(w) ==
    /\ dht' = w.dht
    /\ hashes' = w.hashes
    /\ shaCount' = w.shaCount
    /\ opts' = w.opts
    /\ call' = w.call
    /\ pc' = w.pc
    /\ frags' = w.frags
    /\ batch' = w.batch
    /\ boxes' = w.boxes
    /\ acc' = w.acc
    /\ payload' = w.payload
    /\ inflight' = w.inflight
    /\ cb' = w.cb
    /\ log' = w.log

Operation(w, idx, path, p, osalt, oseq, addr) ==
    [call |-> w.call.id, batch |-> w.batch.id, idx |-> idx, path |-> path,
     payload |-> p, osalt |-> osalt, oseq |-> oseq, addr |-> addr]

(* transport.put(payload, cb) *)
TransportPut(w, p, idx) ==
    [w EXCEPT !.hashes = Intern(@, p.v),
              !.inflight = @ \cup {Operation(w, idx, "put", p, NoSalt, Undefined,
                                             ImmutableAddress(w.hashes, p.v))}]

(* transport.putMutable(payload, opts, cb) *)
TransportPutMutable(w, p, o, idx) ==
    [w EXCEPT !.inflight = @ \cup {Operation(w, idx, "putMutable", p, o.salt, o.seq,
                                             MutableAddress(PublicKeyHex, o.salt))}]

(* transport.get(key, cb) *)
TransportGet(w, key, idx) ==
    [w EXCEPT !.inflight = @ \cup {Operation(w, idx, "get", NoRecord, NoSalt,
                                             Undefined, key)}]

(* What the transport does with an operation when it completes it:         *)
(* [dht, err, hash, data]                                                  *)
TransportResult(d, op) ==
    IF op.path = "put"
    THEN [dht |-> (op.addr :> op.payload) @@ d, err |-> NoErr,
          hash |-> op.addr, data |-> NoRecord]
    ELSE IF op.path = "putMutable"
    THEN IF op.addr \notin DOMAIN d \/ op.oseq = d[op.addr].seq + 1
         THEN [dht |-> (op.addr :> [v |-> op.payload.v, seq |-> op.oseq,
                                    salt |-> op.osalt, k |-> PublicKeyHex]) @@ d,
               err |-> NoErr, hash |-> op.addr, data |-> NoRecord]
         ELSE [dht |-> d, err |-> ErrSequence, hash |-> NoKey, data |-> NoRecord]
    ELSE [dht |-> d, err |-> NoErr, hash |-> NoKey,
          data |-> IF op.addr \in DOMAIN d
                   THEN SetField(d[op.addr], "id", "grenache")
                   ELSE [id |-> "grenache"]]

TransportFailure(d) ==
    [dht |-> d, err |-> ErrTransport, hash |-> NoKey, data |-> NoRecord]

getPayload(data, o) ==
    IF o.seq = Undefined \/ o.seq = 0 THEN [v |-> data]
    ELSE IF o.salt # NoSalt THEN [v |-> data, salt |-> o.salt, seq |-> o.seq]
    ELSE [v |-> data, seq |-> o.seq]

sendImmutableMutViaMutable(w, p, idx) == TransportPutMutable(w, p, w.opts, idx)

sendImmutable(w, p, idx) ==
    TransportPut(w, IF w.opts.salt # NoSalt THEN SetField(p, "salt", w.opts.salt)
                    ELSE p, idx)

sendMutable(w, p, idx) == TransportPutMutable(w, p, w.opts, idx)

(* send: [w, err]; err is the error handed to cb before send returns       *)
sendMutFalsySeq(w, data, idx) ==
    LET p == getPayload(data, w.opts)
    IN  IF w.opts.seq = Undefined \/ w.opts.seq = 0
        THEN [w |-> sendImmutable(w, p, idx), err |-> NoErr]
        ELSE IF ~keysSet THEN [w |-> w, err |-> ErrNoKeys]
        ELSE [w |-> sendMutable([w EXCEPT !.opts.keys = TRUE], p, idx),
              err |-> NoErr]

send(w, data, idx) ==
    LET p == getPayload(data, w.opts)
    IN  IF w.opts.seq = Undefined
        THEN [w |-> sendImmutable(w, p, idx), err |-> NoErr]
        ELSE IF ~keysSet THEN [w |-> w, err |-> ErrNoKeys]
        ELSE [w |-> sendMutable([w EXCEPT !.opts.keys = TRUE], p, idx),
              err |-> NoErr]

(* The top-level callback is called.                                       *)
callback(w, err, hash, data) ==
    [w EXCEPT !.pc = "done",
              !.batch.live = FALSE,
              !.cb = [calls |-> @.calls + 1, err |-> err, hash |-> hash,
                      data |-> data],
              !.log = IF w.call.kind = "put"
                      THEN Append(@, [P |-> w.call.P, seq |-> w.call.seq,
                                      salt |-> w.call.salt,
                                      reuse |-> w.call.reuse,
                                      err |-> err, hash |-> hash,
                                      stored |-> IF hash \in DOMAIN w.dht
                                                 THEN w.dht[hash].v
                                                 ELSE <<>>])
                      ELSE @]

NewBatch(w, kind, tasks) ==
    [w EXCEPT !.batch = [id |-> w.batch.id + 1, kind |-> kind, tasks |-> tasks,
                         next |-> 1, done |-> {}, res |-> <<>>, live |-> TRUE]]

(* Operations of the running batch that are in flight.                     *)
Running(w) ==
    Cardinality({op \in w.inflight :
                    op.call = w.call.id /\ op.batch = w.batch.id})

(* The i-th task of getStoreTasks / getRetrieveTasks: [w, err]             *)
runTask(w, i) ==
    IF w.batch.kind = "store"
    THEN LET n == w.shaCount + 1
         IN  send([w EXCEPT !.shaCount = n, !.opts.salt = getSha(n)],
                  w.batch.tasks[i], i)
    ELSE IF w.batch.tasks[i] = NoKey THEN [w |-> w, err |-> ErrNoKey]
    ELSE [w |-> TransportGet(w, w.batch.tasks[i], i), err |-> NoErr]

(* async.parallelLimit's replenish: start tasks while fewer than the limit *)
(* are running: [w, err]                                                   *)
RECURSIVE replenishMutNoLimit(_)
replenishMutNoLimit(w) ==
    IF w.batch.next > Len(w.batch.tasks)
    THEN [w |-> w, err |-> NoErr]
    ELSE LET i == w.batch.next
             r == runTask([w EXCEPT !.batch.next = i + 1], i)
         IN  IF r.err # NoErr THEN r ELSE replenishMutNoLimit(r.w)

RECURSIVE replenish(_)
replenish(w) ==
    IF w.batch.next > Len(w.batch.tasks) \/ Running(w) >= ConcurrentRequests
    THEN [w |-> w, err |-> NoErr]
    ELSE LET i == w.batch.next
             r == runTask([w EXCEPT !.batch.next = i + 1], i)
         IN  IF r.err # NoErr THEN r ELSE replenish(r.w)

(* taskParallel: async.parallelLimit(tasks, concurrentRequests, cb)        *)
taskParallel(w, kind, tasks) ==
    LET r == replenish(NewBatch(w, kind, tasks))
    IN  IF r.err # NoErr THEN [w |-> [r.w EXCEPT !.batch.live = FALSE], err |-> r.err]
        ELSE r

(* The results of the batch, in the order async.parallelLimit returns them *)
Results(w) == [i \in 1 .. Len(w.batch.tasks) |-> w.batch.res[i]]

(* The per-task callback of async.parallelLimit: [w, fin, err]             *)
taskDoneMutUnshift(w, i, err, val) ==
    IF err # NoErr
    THEN [w |-> [w EXCEPT !.batch.live = FALSE], fin |-> TRUE, err |-> err]
    ELSE LET k == Len(w.batch.tasks) - Cardinality(w.batch.done)
             w1 == [w EXCEPT !.batch.done = @ \cup {k},
                             !.batch.res = (k :> val) @@ @]
         IN  IF w1.batch.done = 1 .. Len(w1.batch.tasks)
             THEN [w |-> [w1 EXCEPT !.batch.live = FALSE], fin |-> TRUE,
                   err |-> NoErr]
             ELSE LET q == replenish(w1)
                  IN  IF q.err # NoErr
                      THEN [w |-> [q.w EXCEPT !.batch.live = FALSE],
                            fin |-> TRUE, err |-> q.err]
                      ELSE [w |-> q.w, fin |-> FALSE, err |-> NoErr]

taskDoneMutPush(w, i, err, val) ==
    IF err # NoErr
    THEN [w |-> [w EXCEPT !.batch.live = FALSE], fin |-> TRUE, err |-> err]
    ELSE LET k == Cardinality(w.batch.done) + 1
             w1 == [w EXCEPT !.batch.done = @ \cup {k},
                             !.batch.res = (k :> val) @@ @]
         IN  IF w1.batch.done = 1 .. Len(w1.batch.tasks)
             THEN [w |-> [w1 EXCEPT !.batch.live = FALSE], fin |-> TRUE,
                   err |-> NoErr]
             ELSE LET q == replenish(w1)
                  IN  IF q.err # NoErr
                      THEN [w |-> [q.w EXCEPT !.batch.live = FALSE],
                            fin |-> TRUE, err |-> q.err]
                      ELSE [w |-> q.w, fin |-> FALSE, err |-> NoErr]

taskDoneMutEarly(w, i, err, val) ==
    IF err # NoErr
    THEN [w |-> [w EXCEPT !.batch.live = FALSE], fin |-> TRUE, err |-> err]
    ELSE LET w1 == [w EXCEPT !.batch.done = @ \cup {i},
                             !.batch.res = (i :> val) @@ @]
             q == replenish(w1)
         IN  IF q.err # NoErr
             THEN [w |-> [q.w EXCEPT !.batch.live = FALSE],
                   fin |-> TRUE, err |-> q.err]
             ELSE IF q.w.batch.next > Len(q.w.batch.tasks)
             THEN [w |-> [q.w EXCEPT
                            !.batch.live = FALSE,
                            !.batch.res =
                                [j \in 1 .. Len(q.w.batch.tasks) |->
                                    IF j \in DOMAIN q.w.batch.res
                                    THEN q.w.batch.res[j] ELSE val]],
                   fin |-> TRUE, err |-> NoErr]
             ELSE [w |-> q.w, fin |-> FALSE, err |-> NoErr]

taskDone(w, i, err, val) ==
    IF err # NoErr
    THEN [w |-> [w EXCEPT !.batch.live = FALSE], fin |-> TRUE, err |-> err]
    ELSE LET w1 == [w EXCEPT !.batch.done = @ \cup {i},
                             !.batch.res = (i :> val) @@ @]
         IN  IF w1.batch.done = 1 .. Len(w1.batch.tasks)
             THEN [w |-> [w1 EXCEPT !.batch.live = FALSE], fin |-> TRUE,
                   err |-> NoErr]
             ELSE LET q == replenish(w1)
                  IN  IF q.err # NoErr
                      THEN [w |-> [q.w EXCEPT !.batch.live = FALSE],
                            fin |-> TRUE, err |-> q.err]
                      ELSE [w |-> q.w, fin |-> FALSE, err |-> NoErr]

wrapAndStorePointers(w, p) ==
    LET wrapped == wrapPointers(p)
        n == w.shaCount + 1
        r == send(NewBatch([w EXCEPT !.shaCount = n, !.opts.salt = getSha(n)],
                           "send", <<>>), wrapped, 0)
    IN  IF r.err # NoErr THEN callback(r.w, r.err, NoKey, NoRecord)
        ELSE [r.w EXCEPT !.pc = "root"]

(* storeUntilPointersFit: async.series over the boxes; the first box       *)
storeUntilPointersFit(w, chunks) ==
    LET r == taskParallel([w EXCEPT !.boxes = Tail(chunks), !.acc = <<>>,
                                    !.pc = "boxes"], "store", Head(chunks))
    IN  IF r.err # NoErr THEN [r.w EXCEPT !.pc = "dropped"] ELSE r.w

storeChunkedMutAtMost(w, slices) ==
    IF Len(slices) < maxPointersPerBuffer
    THEN LET r == taskParallel([w EXCEPT !.frags = slices, !.pc = "leaves"],
                               "store", slices)
         IN  IF r.err # NoErr THEN callback(r.w, r.err, NoKey, NoRecord)
             ELSE r.w
    ELSE IF Len(slices) >= maxSliceCount
    THEN callback(w, ErrTooLarge, NoKey, NoRecord)
    ELSE storeUntilPointersFit([w EXCEPT !.frags = slices],
                               prepareMultiLevelData(slices, maxPointersPerBuffer))

storeChunked(w, slices) ==
    IF Len(slices) < maxPointersPerBuffer
    THEN LET r == taskParallel([w EXCEPT !.frags = slices, !.pc = "leaves"],
                               "store", slices)
         IN  IF r.err # NoErr THEN callback(r.w, r.err, NoKey, NoRecord)
             ELSE r.w
    ELSE IF Len(slices) > maxSliceCount
    THEN callback(w, ErrTooLarge, NoKey, NoRecord)
    ELSE storeUntilPointersFit([w EXCEPT !.frags = slices],
                               prepareMultiLevelData(slices, maxPointersPerBuffer))

put(w, data) ==
    LET slices == prepareData(data)
    IN  IF Len(slices) = 1
        THEN LET n == w.shaCount + 1
                 w1 == IF w.opts.salt = NoSalt
                       THEN [w EXCEPT !.shaCount = n, !.opts.salt = getSha(n)]
                       ELSE w
                 r == send(NewBatch(w1, "send", <<>>), slices[1], 0)
             IN  IF r.err # NoErr THEN callback(r.w, r.err, NoKey, NoRecord)
                 ELSE [r.w EXCEPT !.pc = "root"]
        ELSE storeChunked(w, slices)

(* storeChunked's callback of storeParallel                                *)
leavesDone(w, err) ==
    IF err # NoErr THEN callback(w, err, NoKey, NoRecord)
    ELSE wrapAndStorePointers(w, Results(w))

(* async.series: a box completed                                           *)
boxDone(w, err) ==
    IF err # NoErr THEN [w EXCEPT !.pc = "dropped"]
    ELSE LET w1 == [w EXCEPT !.acc = @ \o Results(w)]
         IN  IF w1.boxes # <<>>
             THEN LET r == taskParallel([w1 EXCEPT !.boxes = Tail(@)], "store",
                                        Head(w1.boxes))
                  IN  IF r.err # NoErr THEN [r.w EXCEPT !.pc = "dropped"]
                      ELSE r.w
             ELSE put(w1, wrapPointers(w1.acc))

(* el.v in acc + el.v *)
ValueText(el) == IF "v" \in DOMAIN el THEN el.v ELSE <<UndefinedText>>

RECURSIVE reduceMutReverse(_)
reduceMutReverse(res) ==
    IF res = <<>> THEN <<>>
    ELSE reduceMutReverse(Tail(res)) \o ValueText(Head(res))

RECURSIVE reduce(_)
reduce(res) ==
    IF res = <<>> THEN <<>>
    ELSE ValueText(Head(res)) \o reduce(Tail(res))

handleChunked(w, p, pointers) ==
    LET p1 == SetField(p, "original", p.v)
    IN  IF pointers = <<>>
        THEN callback(w, NoErr, NoKey, SetField(p1, "v", <<>>))
        ELSE LET r == taskParallel([w EXCEPT !.payload = p1, !.pc = "children",
                                             !.call.rounds = @ + 1],
                                   "retrieve", pointers)
             IN  IF r.err # NoErr THEN callback(r.w, r.err, NoKey, NoRecord)
                 ELSE r.w

maybeRetrieveChunkedMutThrows(w, p) ==
    IF "v" \notin DOMAIN p THEN callback(w, ErrNoData, NoKey, NoRecord)
    ELSE IF IsPointerText(p.v) THEN handleChunked(w, p, PointersOf(p.v))
    ELSE callback(w, NoErr, NoKey, p)

maybeRetrieveChunked(w, p) ==
    IF "v" \in DOMAIN p /\ IsPointerText(p.v)
    THEN handleChunked(w, p, PointersOf(p.v))
    ELSE callback(w, NoErr, NoKey, p)

(* handleChunked's callback of taskParallel                                *)
childrenDoneMutRefetch(w, err) ==
    IF err # NoErr THEN callback(w, err, NoKey, NoRecord)
    ELSE maybeRetrieveChunked(w, w.payload)

childrenDone(w, err) ==
    IF err # NoErr THEN callback(w, err, NoKey, NoRecord)
    ELSE maybeRetrieveChunked(w, SetField(w.payload, "v", reduce(Results(w))))

get(w, key) ==
    IF key = NoKey THEN callback(w, ErrNoKey, NoKey, NoRecord)
    ELSE [TransportGet(NewBatch(w, "send", <<>>), key, 0) EXCEPT !.pc = "fetch"]

(* get's callback of transport.get                                         *)
fetchDoneMutReassemble(w, err, data) ==
    IF err # NoErr THEN callback(w, err, NoKey, NoRecord)
    ELSE maybeRetrieveChunked(w, data)

fetchDone(w, err, data) ==
    IF err # NoErr THEN callback(w, err, NoKey, NoRecord)
    ELSE IF w.call.recursive THEN callback(w, NoErr, NoKey, data)
    ELSE maybeRetrieveChunked(w, data)

----------------------------------------------------------------------------
(* The callers of the GrenacheBackend and the transport's completions.     *)

SeqPayload(n) == [i \in 1 .. n |-> i]
RepPayload(n) == [i \in 1 .. n |-> 1]
(* Payload lengths: every number of slices up to one more than the tree   *)
(* addresses, the last slice full or holding a single token.               *)
Lengths ==
    {n \in 0 .. MaxLen :
        n % BufferSizelimit = 0 \/ n % BufferSizelimit = 1 % BufferSizelimit}
(* Payloads of pairwise different tokens, payloads of one repeated token   *)
(* (whose slices repeat, up to one box and one slice), and the text of an  *)
(* empty pointer buffer.                                                   *)
Payloads ==
    {SeqPayload(n) : n \in Lengths}
        \cup {RepPayload(n) : n \in {m \in Lengths :
                    m <= maxPointersPerBuffer * BufferSizelimit + 1}}
        \cup {wrapPointers(<<>>)}

GSeqs == {Undefined} \cup (0 .. MaxPuts)
GSalts == {NoSalt} \cup (1 .. NumSalts)

NoCall == [kind |-> "none", id |-> 0, P |-> <<>>, seq |-> Undefined,
           salt |-> NoSalt, reuse |-> FALSE, key |-> NoKey,
           recursive |-> FALSE, rounds |-> 0]

CallEnded == pc \in {"idle", "done"}

(* A run with several puts keeps all of them short.  send reads conf.keys  *)
(* on the mutable path only: long immutable payloads go to the instance    *)
(* that has keys.                                                          *)
MayPut(P, seq) ==
    /\ \/ log = <<>>
       \/ /\ Len(P) <= MaxMultiLen
          /\ \A i \in 1 .. Len(log) : Len(log[i].P) <= MaxMultiLen
    /\ keysSet \/ seq # Undefined \/ Len(P) <= MaxMultiLen

ReturnedAddresses == {log[i].hash : i \in 1 .. Len(log)} \ {NoKey}

(* What a caller may hand to put besides a payload of its own: the v of a  *)
(* record stored at an address an earlier put returned (the caller reads   *)
(* it with get(address, {recursive: true})).                               *)
Fetched == {dht[a].v : a \in ReturnedAddresses \cap DOMAIN dht}

(* ... or a text of its own that reads as a pointer buffer listing such an *)
(* address.                                                                *)
Crafted == {wrapPointers(<<a>>) : a \in ReturnedAddresses}

(* put(P, o, cb) with a fresh options object o = {seq, salt}, or (reuse)   *)
(* with the options object of the previous put, its seq set to seq.  The   *)
(* callers write first and read afterwards.                                *)
GPut(P, seq, salt, reuse) ==
    /\ backend = "grenache"
    /\ CallEnded
    /\ call.kind # "get"
    /\ Len(log) < MaxPuts
    /\ MayPut(P, seq)
    /\ seq <= Len(log) + 1
    /\ reuse => (log # <<>> /\ salt = NoSalt)
    /\ LET o == IF reuse THEN [opts EXCEPT !.seq = seq]
                ELSE [seq |-> seq, salt |-> salt, keys |-> FALSE]
           w == [World EXCEPT
                    !.opts = o,
                    !.call = [kind |-> "put", id |-> call.id + 1, P |-> P,
                              seq |-> seq, salt |-> o.salt, reuse |-> reuse,
                              key |-> NoKey, recursive |-> FALSE,
                              rounds |-> 0],
                    !.frags = <<>>, !.boxes = <<>>, !.acc = <<>>,
                    !.payload = NoRecord]
       IN  Commit(put(w, P))
    /\ UNCHANGED <<backend, keysSet, failures>>
    /\ UNCHANGED memVars

(* The address the most recent successful put returned.                   *)
LastReturned ==
    LET i == CHOOSE i \in 1 .. Len(log) :
                /\ log[i].hash # NoKey
                /\ \A j \in (i + 1) .. Len(log) : log[j].hash = NoKey
    IN  log[i].hash

(* The reads of a run: the address returned last; after MaxPuts puts only  *)
(* that one, without recursive.                                            *)
MayGet(key, recursive) ==
    /\ key = NoKey => log = <<>>
    /\ (key = UnknownAddress \/ recursive) => Len(log) < MaxPuts
    /\ key \in ReturnedAddresses => key = LastReturned

(* get(key, {recursive}, cb) *)
GGet(key, recursive) ==
    /\ backend = "grenache"
    /\ CallEnded
    /\ MayGet(key, recursive)
    /\ call.id - Len(log) < MaxGets
    /\ LET w == [World EXCEPT
                    !.call = [kind |-> "get", id |-> call.id + 1, P |-> <<>>,
                              seq |-> Undefined, salt |-> NoSalt,
                              reuse |-> FALSE, key |-> key,
                              recursive |-> recursive, rounds |-> 0],
                    !.frags = <<>>, !.boxes = <<>>, !.acc = <<>>,
                    !.payload = NoRecord]
       IN  Commit(get(w, key))
    /\ UNCHANGED <<backend, keysSet, failures>>
    /\ UNCHANGED memVars

IsCurrent(op) == op.call = call.id /\ op.batch = batch.id /\ batch.live

(* The transport completes op (fail: with a transport error).              *)
Completed(op, fail) ==
    IF fail THEN TransportFailure(dht) ELSE TransportResult(dht, op)

AfterCompletion(op, fail) ==
    [World EXCEPT !.dht = Completed(op, fail).dht, !.inflight = @ \ {op}]

Completes(op, fail) ==
    /\ backend = "grenache"
    /\ op \in inflight
    /\ fail => failures < MaxFailures
    /\ failures' = IF fail THEN failures + 1 ELSE failures
    /\ UNCHANGED <<backend, keysSet>>
    /\ UNCHANGED memVars

(* An operation whose call or batch has ended completes: nobody listens.   *)
CompleteOrphan(op, fail) ==
    /\ Completes(op, fail)
    /\ ~IsCurrent(op)
    /\ Commit(AfterCompletion(op, fail))

(* The write of a single record (a one-slice payload or a pointer buffer)  *)
(* completes: send's callback is put's callback.                           *)
CompleteRoot(op, fail) ==
    /\ Completes(op, fail)
    /\ IsCurrent(op)
    /\ pc = "root"
    /\ LET r == Completed(op, fail)
       IN  Commit(callback(AfterCompletion(op, fail), r.err, r.hash, NoRecord))

(* A sub-store of storeChunked's storeParallel completes.                  *)
CompleteLeaf(op, fail) ==
    /\ Completes(op, fail)
    /\ IsCurrent(op)
    /\ pc = "leaves"
    /\ LET r == Completed(op, fail)
           t == taskDone(AfterCompletion(op, fail), op.idx, r.err, r.hash)
       IN  Commit(IF t.fin THEN leavesDone(t.w, t.err) ELSE t.w)

(* A sub-store of a box of storeUntilPointersFit completes.                *)
CompleteBox(op, fail) ==
    /\ Completes(op, fail)
    /\ IsCurrent(op)
    /\ pc = "boxes"
    /\ LET r == Completed(op, fail)
           t == taskDone(AfterCompletion(op, fail), op.idx, r.err, r.hash)
       IN  Commit(IF t.fin THEN boxDone(t.w, t.err) ELSE t.w)

(* The transport.get of a top-level get completes.                         *)
CompleteFetch(op, fail) ==
    /\ Completes(op, fail)
    /\ IsCurrent(op)
    /\ pc = "fetch"
    /\ LET r == Completed(op, fail)
       IN  Commit(fetchDone(AfterCompletion(op, fail), r.err, r.data))

(* A child fetch of handleChunked completes.  The rounds of child fetches  *)
(* of one get (call.rounds) are followed up to MaxRounds.                  *)
CompleteChild(op, fail) ==
    /\ Completes(op, fail)
    /\ IsCurrent(op)
    /\ pc = "children"
    /\ call.rounds < MaxRounds
    /\ LET r == Completed(op, fail)
           t == taskDone(AfterCompletion(op, fail), op.idx, r.err, r.data)
       IN  Commit(IF t.fin THEN childrenDone(t.w, t.err) ELSE t.w)

GNext ==
    \/ \E P \in Payloads \cup Fetched \cup Crafted, seq \in GSeqs,
          salt \in GSalts,
          reuse \in BOOLEAN : GPut(P, seq, salt, reuse)
    \/ \E key \in ReturnedAddresses \cup {UnknownAddress, NoKey},
          recursive \in BOOLEAN : GGet(key, recursive)
    \/ \E op \in inflight, fail \in BOOLEAN : CompleteOrphan(op, fail)
    \/ \E op \in inflight, fail \in BOOLEAN : CompleteRoot(op, fail)
    \/ \E op \in inflight, fail \in BOOLEAN : CompleteLeaf(op, fail)
    \/ \E op \in inflight, fail \in BOOLEAN : CompleteBox(op, fail)
    \/ \E op \in inflight, fail \in BOOLEAN : CompleteFetch(op, fail)
    \/ \E op \in inflight, fail \in BOOLEAN : CompleteChild(op, fail)

----------------------------------------------------------------------------
Init ==
    /\ backend \in {"memory", "grenache"}
    /\ keysSet \in BOOLEAN
    /\ backend = "memory" => keysSet
    /\ store = <<>>
    /\ shaCount = 0
    /\ memOps = 0
    /\ last = [op |-> "none", data |-> <<>>,
               opts |-> [seq |-> Undefined, salt |-> NoSalt],
               err |-> NoErr, key |-> NoKey]
    /\ accepted = <<>>
    /\ ret = NoRecord
    /\ retAliased = FALSE
    /\ dht = <<>>
    /\ hashes = <<>>
    /\ failures = 0
    /\ opts = [seq |-> Undefined, salt |-> NoSalt, keys |-> FALSE]
    /\ call = NoCall
    /\ pc = "idle"
    /\ frags = <<>>
    /\ batch = NoBatch
    /\ boxes = <<>>
    /\ acc = <<>>
    /\ payload = NoRecord
    /\ inflight = {}
    /\ cb = [calls |-> 0, err |-> NoErr, hash |-> NoKey, data |-> NoRecord]
    /\ log = <<>>

Next == MemNext \/ GNext

Spec == Init /\ [][Next]_vars


----------------------------------------------------------------------------
(* Properties of the MemoryBackend.                                        *)

(* The step is a put on the MemoryBackend.                                 *)
MemPutStep == backend = "memory" /\ memOps' = memOps + 1 /\ last'.op = "put"
MemGetStep == backend = "memory" /\ memOps' = memOps + 1 /\ last'.op = "get"

(* The address the put of this step targets holds no record: its salt was  *)
(* derived by getSha, or no record is stored under (publicKey, salt).      *)
TargetKey == MemoryKey(PublicKeyHex, last'.opts.salt)
TargetEmpty == last'.opts.salt = NoSalt \/ TargetKey \notin DOMAIN store
SeqFollows ==
    /\ ~TargetEmpty
    /\ store[TargetKey].seq # Undefined
    /\ last'.opts.seq = store[TargetKey].seq + 1
SequenceRule ==
    /\ last'.err = NoErr <=> (TargetEmpty \/ SeqFollows)
    /\ last'.err # NoErr => last'.err = ErrConflictSeq
    /\ (last'.err = NoErr /\ ~TargetEmpty) =>
            store'[TargetKey].seq = store[TargetKey].seq + 1

(* C2 as stated: every put is accepted iff the address is empty or         *)
(* incoming.seq = stored.seq + 1, and every other put fails with           *)
(* ERR_CONFLICT_SEQ.                                                       *)
C2_AsStated == [][MemPutStep => SequenceRule]_vars

(* C2: a put that provides data is accepted iff no record is stored at its *)
(* address or incoming.seq = stored.seq + 1, every other such put fails    *)
(* with ERR_CONFLICT_SEQ, and an accepted overwrite raises the stored seq  *)
(* by exactly 1; a put without data fails with 'no data provided'.         *)
C2_SequenceRule ==
    [][MemPutStep =>
          IF last'.data # <<>> THEN SequenceRule
          ELSE last'.err = ErrNoData]_vars

(* A put repeating the stored seq 1 was rejected.                          *)
C2_Witness ==
    /\ backend = "memory"
    /\ last.op = "put"
    /\ last.err = ErrConflictSeq
    /\ last.opts.seq = 1
    /\ last.opts.salt # NoSalt
    /\ store[MemoryKey(PublicKeyHex, last.opts.salt)].seq = 1

(* C3: a put that fails (sequence conflict or missing data) leaves every   *)
(* address of the store as it was.                                         *)
C3_FailedPutKeepsStore ==
    [][(MemPutStep /\ last'.err # NoErr) => store' = store]_vars

(* A put was rejected for its seq while a record was stored.               *)
C3_Witness ==
    /\ backend = "memory"
    /\ last.op = "put"
    /\ last.err = ErrConflictSeq
    /\ last.data # <<>>
    /\ store # <<>>

(* The last call is a get of a key an accepted put returned, and the       *)
(* caller has not written into the record it was handed.                   *)
ReadYourWriteCase ==
    /\ backend = "memory"
    /\ last.op = "get"
    /\ last.key \in DOMAIN accepted
    /\ "v" \in DOMAIN ret => ret.v # <<9>>

ReadFields ==
    /\ last.err = NoErr
    /\ DOMAIN ret = {"v", "seq", "salt", "k", "sig", "id"}
    /\ ret.v = accepted[last.key].data
    /\ ret.seq = accepted[last.key].opts.seq
    /\ ret.k = PublicKeyHex
    /\ ret.id = "memory"

(* C4 as stated: the record get returns has the salt of the put's options. *)
C4_AsStated ==
    ReadYourWriteCase =>
        (ReadFields /\ ret.salt = accepted[last.key].opts.salt)

(* C4: get(A) returns the most recently accepted record at A: v, seq of    *)
(* that put, k the hex public key, id "memory", and salt the salt of its   *)
(* options when they carry one, else the derived salt that A encodes; get  *)
(* does not change the store, nor does writing into the returned record.   *)
C4_ReadYourWrite ==
    /\ [](ReadYourWriteCase =>
            /\ ReadFields
            /\ last.key = MemoryKey(ret.k, ret.salt)
            /\ accepted[last.key].opts.salt # NoSalt =>
                    ret.salt = accepted[last.key].opts.salt)
    /\ [][(MemGetStep \/ (backend = "memory" /\ ret' # ret /\ memOps' = memOps))
            => store' = store]_vars

(* The caller wrote into the record that get returned for a stored key.    *)
C4_Witness ==
    /\ backend = "memory"
    /\ last.op = "get"
    /\ last.key \in DOMAIN accepted
    /\ ret.v = <<9>>
    /\ store[last.key].v = accepted[last.key].data

(* C5, MemoryBackend: get on an address at which no put was accepted ends  *)
(* without error and with exactly {id: "memory"}.                          *)
MemNotFoundCase ==
    /\ backend = "memory"
    /\ last.op = "get"
    /\ last.key # <<>>
    /\ last.key \notin DOMAIN accepted
MemNotFound == MemNotFoundCase => (last.err = NoErr /\ ret = [id |-> "memory"])

(* C18 as stated: every record in the store of the MemoryBackend carries  *)
(* a signature over its own seq, salt and v.                               *)
C18_AsStated ==
    backend = "memory" =>
        \A key \in DOMAIN store :
            /\ store[key].sig.seq = store[key].seq
            /\ store[key].sig.salt = store[key].salt
            /\ store[key].sig.v = store[key].v

----------------------------------------------------------------------------
(* Properties of the GrenacheBackend.                                      *)

PutRuns == backend = "grenache" /\ call.kind = "put"
GetRuns == backend = "grenache" /\ call.kind = "get"
PutDone == PutRuns /\ pc = "done"
GetDone == GetRuns /\ pc = "done"

(* The transport operations the running call started and that have not     *)
(* completed.                                                              *)
Outstanding == {op \in inflight : op.call = call.id}

(* The last put whose callback received address a.                         *)
PutOf(a) ==
    log[CHOOSE i \in 1 .. Len(log) :
            /\ log[i].hash = a
            /\ \A j \in (i + 1) .. Len(log) : log[j].hash # a]

(* The puts whose record address a names: the last put that returned a,    *)
(* and every put without seq that returned a.                              *)
PutsAt(a) ==
    {i \in 1 .. Len(log) :
        /\ log[i].hash = a
        /\ \/ log[i].seq = Undefined
           \/ \A j \in (i + 1) .. Len(log) : log[j].hash # a}

(* A get without recursive, of an address a put returned, has completed    *)
(* and the transport has not failed it.                                    *)
ReadBack ==
    /\ GetDone
    /\ ~call.recursive
    /\ call.key \in ReturnedAddresses
    /\ cb.err # ErrTransport

(* ... and the v stored at the address is the one that was stored there    *)
(* when that put completed: no other write has replaced it.                *)
RoundTripCase ==
    /\ ReadBack
    /\ dht[call.key].v = PutOf(call.key).stored

RoundTrips(i) ==
    /\ cb.err = NoErr
    /\ "v" \in DOMAIN cb.data
    /\ cb.data.v = log[i].P

(* C1 as stated: for every payload P, get(put(P, O)) returns v = P.        *)
C1_AsStated == ReadBack => \A i \in PutsAt(call.key) : RoundTrips(i)

(* C1: for every payload P that is not itself the text of a pointer        *)
(* buffer, once put(P, O) has completed with address A, get(A, {})         *)
(* completes with a record whose v equals P.                               *)
C1_RoundTrip ==
    RoundTripCase =>
        \A i \in PutsAt(call.key) : ~IsPointerText(log[i].P) => RoundTrips(i)

(* A mutable payload of more than K slices (two pointer levels) was read   *)
(* back.                                                                   *)
C1_Witness ==
    /\ RoundTripCase
    /\ PutOf(call.key).seq = 1
    /\ Len(prepareData(PutOf(call.key).P)) > maxPointersPerBuffer
    /\ cb.data.v = PutOf(call.key).P

(* C5: not-found is a value.  MemoryBackend: see MemNotFound.  Chunking    *)
(* backend: a top-level get to which the transport hands the sentinel ends *)
(* without error, returns the sentinel unchanged and starts no child       *)
(* fetch.                                                                  *)
C5_NotFoundIsValue ==
    /\ MemNotFound
    /\ (GetRuns /\ call.key = UnknownAddress) =>
          /\ pc \in {"fetch", "done"}
          /\ \A op \in Outstanding : op.idx = 0
          /\ (pc = "done" /\ cb.err # ErrTransport) =>
                /\ cb.err = NoErr
                /\ cb.data = [id |-> "grenache"]
                /\ payload = NoRecord

(* A get of an unknown address, without recursive, has completed.          *)
C5_Witness ==
    /\ GetDone
    /\ call.key = UnknownAddress
    /\ ~call.recursive
    /\ cb.err = NoErr
    /\ "v" \notin DOMAIN cb.data

(* The puts without seq whose callback received an address.                *)
ImmutablePuts ==
    {i \in 1 .. Len(log) : log[i].seq = Undefined /\ log[i].err = NoErr}

(* C6 as stated: equal payloads, equal addresses; different payloads,      *)
(* different addresses.                                                    *)
C6_AsStated ==
    backend = "grenache" =>
        \A i, j \in ImmutablePuts :
            (log[i].P = log[j].P) <=> (log[i].hash = log[j].hash)

(* C6: two put(P, {}) without seq return identical addresses, with one     *)
(* options object reused or a fresh one each time; put(P', {}) with        *)
(* P' # P returns a different address unless one of the two payloads is    *)
(* the text of a pointer buffer.                                           *)
C6_ImmutableIdempotence ==
    backend = "grenache" =>
        \A i, j \in ImmutablePuts :
            /\ log[i].P = log[j].P => log[i].hash = log[j].hash
            /\ (/\ log[i].P # log[j].P
                /\ ~IsPointerText(log[i].P)
                /\ ~IsPointerText(log[j].P)) => log[i].hash # log[j].hash

(* Two chunked puts of one payload without seq, the second with a fresh    *)
(* options object, have returned.                                          *)
C6_Witness ==
    /\ PutDone
    /\ ImmutablePuts = {1, 2}
    /\ ~log[2].reuse
    /\ log[1].P = log[2].P
    /\ Len(log[1].P) > BufferSizelimit
    /\ log[1].hash = log[2].hash

(* C7: every record a put hands to the transport goes through putMutable   *)
(* iff the caller's opts.seq is defined (0 included), and through the      *)
(* immutable put otherwise.                                                *)
C7_WritePath ==
    PutRuns =>
        \A op \in Outstanding :
            /\ op.path \in {"put", "putMutable"}
            /\ op.path = "putMutable" <=> call.seq # Undefined

(* Two records of a put with seq = 0 are on their way through putMutable.  *)
C7_Witness ==
    /\ PutRuns
    /\ call.seq = 0
    /\ Cardinality(Outstanding) = 2
    /\ \A op \in Outstanding : op.path = "putMutable"

C9_FanOutBound ==
    backend = "grenache" => Cardinality(Outstanding) <= ConcurrentRequests

(* concurrentRequests sub-stores of a later box are outstanding.           *)
C9_Witness ==
    /\ PutRuns
    /\ pc = "boxes"
    /\ acc # <<>>
    /\ Cardinality(Outstanding) = ConcurrentRequests

(* The address a is that of a record holding fragment f.                   *)
Holds(a, f) == a \in DOMAIN dht /\ dht[a].v = f

RECURSIVE Flat(_)
Flat(ss) == IF ss = <<>> THEN <<>> ELSE Head(ss) \o Flat(Tail(ss))

(* The level being stored is the sliced pointer buffer over the slices of  *)
(* the payload.                                                            *)
PointerLevel ==
    /\ frags # <<>>
    /\ frags # prepareData(call.P)
    /\ IsPointerText(Flat(frags))

(* C10: in the pointer buffer a put publishes, the i-th address is the     *)
(* address of the record that holds the i-th fragment of its level, and so *)
(* are the addresses that the completed boxes have collected and the       *)
(* addresses of the pointer buffer that a multi-level store slices again.  *)
C10_PointerOrder ==
    PutRuns =>
        /\ pc = "boxes" => \A i \in 1 .. Len(acc) : Holds(acc[i], frags[i])
        /\ PointerLevel =>
              /\ Len(PointersOf(Flat(frags))) = Len(prepareData(call.P))
              /\ \A i \in 1 .. Len(prepareData(call.P)) :
                    Holds(PointersOf(Flat(frags))[i], prepareData(call.P)[i])
        /\ (pc = "root" /\ frags # <<>>) =>
              \A op \in Outstanding :
                  /\ IsPointerText(op.payload.v)
                  /\ Len(PointersOf(op.payload.v)) = Len(frags)
                  /\ \A i \in 1 .. Len(frags) :
                        Holds(PointersOf(op.payload.v)[i], frags[i])

(* The pointer buffer over exactly K fragments of pairwise different       *)
(* content is on its way.                                                  *)
C10_Witness ==
    /\ PutRuns
    /\ pc = "root"
    /\ Len(frags) = maxPointersPerBuffer
    /\ frags[1] # frags[2]
    /\ Outstanding # {}

----------------------------------------------------------------------------
(* Completion and error propagation of put.                                *)

(* The step completes, with a transport error, a write that the running    *)
(* put waits for.                                                          *)
WriteFails ==
    /\ PutRuns
    /\ pc \notin {"done", "dropped"}
    /\ failures' = failures + 1
    /\ \E op \in Outstanding \ inflight' : IsCurrent(op)

(* C11 as stated: a put none of whose operations is outstanding has        *)
(* invoked its callback, exactly once; when a transport write of the put   *)
(* fails (leaf, box or pointer buffer), the callback receives the error    *)
(* and no address, and no operation is started in place of the failed one. *)
C11_AsStated ==
    [][/\ (PutRuns' /\ Outstanding' = {}) =>
              (pc' = "done" /\ cb'.calls = call'.id)
       /\ WriteFails =>
              /\ pc' = "done"
              /\ cb'.calls = cb.calls + 1
              /\ cb'.err = ErrTransport
              /\ cb'.hash = NoKey
              /\ inflight' \subseteq inflight]_vars

(* C12 as stated: on a backend constructed without keys a put, of a        *)
(* payload within the capacity, with a defined seq ends with 'no keys set' *)
(* and no address and has handed no write to the transport, whatever the   *)
(* number of slices; a put without seq whose writes the transport accepts  *)
(* returns an address.                                                     *)
C12_AsStated ==
    (PutRuns /\ ~keysSet /\ Len(call.P) <= Capacity) =>
        /\ call.seq # Undefined =>
              /\ pc = "done"
              /\ cb.err = ErrNoKeys
              /\ cb.hash = NoKey
              /\ Outstanding = {}
        /\ (call.seq = Undefined /\ pc = "done" /\ failures = 0) =>
              (cb.err = NoErr /\ cb.hash # NoKey)

(* The addresses that the text v lists.                                    *)
AddressesIn(v) == {v[i] : i \in {j \in 1 .. Len(v) : IsAddress(v[j])}}

(* C14: while a put runs, every address listed in a record whose write is  *)
(* outstanding is the address of a stored record; the write of a pointer   *)
(* buffer is outstanding alone; and in a multi-level store the outstanding *)
(* sub-stores all belong to the one box that follows the boxes whose       *)
(* addresses have been collected.                                          *)
C14_LevelsSequential ==
    PutRuns =>
        /\ \A op \in Outstanding :
              /\ \A a \in AddressesIn(op.payload.v) : a \in DOMAIN dht
              /\ (pc = "root" /\ IsPointerText(op.payload.v)) =>
                    Outstanding = {op}
        /\ pc = "boxes" =>
              /\ Len(acc) % maxPointersPerBuffer = 0
              /\ \A op \in Outstanding :
                    /\ op.batch = batch.id
                    /\ Len(acc) + op.idx <= Len(frags)
                    /\ op.payload.v = frags[Len(acc) + op.idx]

(* The pointer buffer over the addresses collected from the boxes is on    *)
(* its way.                                                                *)
C14_Witness ==
    /\ PutRuns
    /\ pc = "root"
    /\ Len(acc) >= maxPointersPerBuffer
    /\ \E op \in Outstanding : PointersOf(op.payload.v) = acc

(* C15 as stated: every record handed to transport.putMutable has a seq   *)
(* field equal to the caller's opts.seq, and a salt field, seq = 0         *)
(* included.                                                               *)
C15_AsStated ==
    PutRuns =>
        \A op \in Outstanding :
            op.path = "putMutable" =>
                /\ DOMAIN op.payload = {"v", "seq", "salt"}
                /\ op.payload.seq = call.seq

(* The salt under which the transport publishes the record of op.         *)
SaltOf(op) ==
    IF op.path = "putMutable" THEN op.osalt
    ELSE IF "salt" \in DOMAIN op.payload THEN op.payload.salt ELSE NoSalt

(* C17 as stated: when the caller passes a salt S, the root record of the  *)
(* put, single-slice or chunked, is written under S and no other record of *)
(* the put is.                                                             *)
C17_AsStated ==
    (PutRuns /\ call.salt # NoSalt) =>
        \A op \in Outstanding :
            (pc = "root") <=> (SaltOf(op) = call.salt)

(* C19 as stated: when a put has completed, with or without error, the    *)
(* options object holds the salt the caller passed (none if it passed      *)
(* none), the seq it passed, and no keys if it was passed as a fresh       *)
(* object.                                                                 *)
C19_AsStated ==
    PutDone =>
        /\ opts.salt = call.salt
        /\ opts.seq = call.seq
        /\ ~call.reuse => ~opts.keys

----------------------------------------------------------------------------
(* Reads of the GrenacheBackend.                                           *)

(* The record the transport hands out for address a.                       *)
Raw(a) == TransportResult(dht, [path |-> "get", addr |-> a]).data

(* The reassembler has children to fetch for record r.                     *)
HasChildren(r) ==
    "v" \in DOMAIN r /\ IsPointerText(r.v) /\ PointersOf(r.v) # <<>>

(* The step completes, without a transport error, the transport.get of the *)
(* running get.                                                            *)
FetchCompletes == pc = "fetch" /\ pc' # "fetch" /\ failures' = failures

(* C13: get(address, {recursive: true}) hands one get to the transport and *)
(* returns the transport's record as it is, pointer buffer or not, without *)
(* a child fetch and without an original field; get without recursive runs *)
(* the reassembler on the fetched record, and every child fetch of the     *)
(* reassembler is one transport get whose record is taken as it is.        *)
C13_RecursiveGet ==
    [][(GetRuns' /\ call'.key # NoKey) =>
          /\ call'.recursive =>
                /\ pc' \in {"fetch", "done"}
                /\ payload' = NoRecord
                /\ pc' = "fetch" =>
                      \E op \in inflight' :
                          /\ Outstanding' = {op}
                          /\ op.path = "get"
                          /\ op.addr = call'.key
                /\ pc' = "done" => Outstanding' = {}
                /\ FetchCompletes =>
                      /\ pc' = "done"
                      /\ cb'.err = NoErr
                      /\ cb'.data = Raw(call.key)
          /\ ~call'.recursive =>
                /\ FetchCompletes =>
                      IF HasChildren(Raw(call.key))
                      THEN /\ pc' = "children"
                           /\ payload'.original = Raw(call.key).v
                      ELSE pc' = "done"
                /\ pc' = "children" =>
                      \A op \in Outstanding' :
                          /\ op.path = "get"
                          /\ op.addr = PointersOf(payload'.v)[op.idx]
                /\ (/\ pc = "children"
                    /\ batch'.id = batch.id
                    /\ failures' = failures) =>
                      \A op \in Outstanding \ Outstanding' :
                          batch'.res[op.idx] = Raw(op.addr)]_vars

(* A recursive get of a root that is a pointer buffer has returned it.     *)
C13_Witness ==
    /\ GetDone
    /\ call.recursive
    /\ cb.err = NoErr
    /\ HasChildren(cb.data)
    /\ cb.data = Raw(call.key)
    /\ "original" \notin DOMAIN cb.data

(* The step ends, without error, a get without recursive of an address a   *)
(* put returned, where the v stored when that put completed is still       *)
(* stored.                                                                 *)
ReadBackEnds ==
    /\ GetRuns
    /\ ~call.recursive
    /\ call.key \in ReturnedAddresses
    /\ pc # "done"
    /\ pc' = "done"
    /\ cb'.err = NoErr
    /\ call.key \in DOMAIN dht
    /\ dht[call.key].v = PutOf(call.key).stored

(* C16 as stated: a get without recursive of a root that is a pointer      *)
(* buffer returns the root with original = the v stored at the requested   *)
(* address and v = the payload; of a leaf root, the transport's record as  *)
(* it is, without original.                                                *)
C16_AsStated ==
    [][ReadBackEnds =>
          IF IsPointerText(dht[call.key].v)
          THEN /\ "original" \in DOMAIN cb'.data
               /\ cb'.data.original = dht[call.key].v
               /\ ~IsPointerText(PutOf(call.key).P) =>
                      cb'.data.v = PutOf(call.key).P
          ELSE cb'.data = Raw(call.key)]_vars

(* A get without recursive of an address a put returned runs or has ended. *)
Reassembly ==
    /\ GetRuns
    /\ ~call.recursive
    /\ call.key \in ReturnedAddresses

(* The get has made at most maxIndirections rounds of child fetches; it    *)
(* has ended or waits for an operation the transport has yet to answer;    *)
(* and once ended its callback has been invoked once.                      *)
EndsWithinDepth ==
    /\ call.rounds <= MaxIndirections
    /\ pc = "done" \/ Outstanding # {}
    /\ pc = "done" => cb.calls = call.id

RECURSIVE ChildrenText(_)
ChildrenText(p) ==
    IF p = <<>> THEN <<>>
    ELSE ValueText(Raw(Head(p))) \o ChildrenText(Tail(p))

(* The step completes, without a transport error, the last child fetch of  *)
(* a round of the running get.                                             *)
RoundEnds ==
    /\ GetRuns
    /\ pc = "children"
    /\ failures' = failures
    /\ pc' = "done" \/ batch'.id # batch.id

(* C21: at every level, whichever child fetch completes last, the v that   *)
(* replaces the pointer buffer is the concatenation of the v fields of the *)
(* children in the order of the addresses in p (a concatenation that reads *)
(* as a pointer buffer without addresses is in turn replaced by the empty  *)
(* text).                                                                  *)
C21_ReassemblyOrder ==
    [][RoundEnds =>
          LET text == ChildrenText(PointersOf(payload.v))
          IN  IF pc' = "done"
              THEN cb'.err = NoErr =>
                      cb'.data.v = IF IsPointerText(text) THEN <<>> ELSE text
              ELSE payload'.v = text]_vars

(* In the second round of a get the fetch of the second child has          *)
(* completed before that of the first.                                     *)
C21_Witness ==
    /\ GetRuns
    /\ pc = "children"
    /\ call.rounds = 2
    /\ 2 \in batch.done
    /\ 1 \notin batch.done
    /\ batch.res[2] = Raw(PointersOf(payload.v)[2])
    /\ Raw(PointersOf(payload.v)[1]) # Raw(PointersOf(payload.v)[2])

----------------------------------------------------------------------------
(* Salts within one put.                                                   *)

(* The addresses the sub-stores of the running level have returned so far. *)
ReturnedSoFar ==
    {acc[i] : i \in 1 .. Len(acc)}
        \cup (IF batch.kind = "store"
              THEN {batch.res[i] : i \in DOMAIN batch.res} ELSE {})

(* C22 as stated: in a put with seq of a payload that is not itself the    *)
(* text of a pointer buffer, the records on their way have pairwise        *)
(* different salts, none of them targets the address returned for a        *)
(* record of the level being stored, and no pointer buffer targets an      *)
(* address that it lists, a level of exactly K slices included.            *)
C22_AsStated ==
    (PutRuns /\ call.seq # Undefined /\ ~IsPointerText(call.P)) =>
        \A op \in Outstanding :
            /\ \A other \in Outstanding \ {op} : SaltOf(other) # SaltOf(op)
            /\ op.addr \notin ReturnedSoFar
            /\ op.addr \notin AddressesIn(op.payload.v)

====
